---- MODULE Spec2Model ----
(***************************************************************************)
(* Planner task statistics: the one-shot report script                     *)
(* (count_incomplete_tasks.py) and the Prometheus exporter                 *)
(* (task_metrics_exporter.py) with its background refresh thread and its   *)
(* /metrics handler.                                                       *)
(*                                                                         *)
(* Three specifications:                                                   *)
(*   AggSpec   one run of the task loop of either program over one input   *)
(*   Spec      the exporter: refresh thread and a /metrics request         *)
(*   FairSpec  Spec with the refresh thread scheduled fairly               *)
(***************************************************************************)
EXTENDS Integers, Sequences, FiniteSets, TLC

\* ------------------------------------------------------------- bounds
MaxTasks == 2
LongLen == 11
MaxPayload == 1
\* the slice [:10] of the oldest-tasks report
OldestLimit == 10

Instants == {0, 1}
TzOffsets == {-1, 0, 1}

\* ------------------------------------------------------------- JSON values
\* An optional JSON field: kind "none" is a missing key (dict.get gives
\* None or the default).
Missing == [kind |-> "none", val |-> 0]
IntV(n) == [kind |-> "int", val |-> n]
\* a percentComplete that is not a number, e.g. "50%"
StrV == [kind |-> "str", val |-> 0]
\* a "...Z" timestamp of the instant n
Utc(n) == [kind |-> "utc", val |-> n]
\* a non-empty string that no date parser accepts
BadDate == [kind |-> "bad", val |-> 0]
NoTitle == [kind |-> "none", val |-> ""]
TitleV(s) == [kind |-> "str", val |-> s]
NoAssign == [kind |-> "none", keys |-> << >>]
\* a JSON object; keys holds its keys in document order
MapV(ks) == [kind |-> "map", keys |-> ks]
NoPriv == [kind |-> "none", items |-> << >>]
\* a JSON list of objects; items holds each element's userId, "" when the
\* element has none or an empty one (a.get("userId") is falsy)
ListV(ids) == [kind |-> "list", items |-> ids]

TaskRec(p, due, cr, hd, ti, a, pa) ==
    [percentComplete |-> p, dueDateTime |-> due, createdDateTime |-> cr,
     hasDescription |-> hd, title |-> ti, assignments |-> a,
     _assignments |-> pa]

USER_LOOKUP == [u \in {"u1"} |-> "Alice"]

Range(s) == {s[k] : k \in 1..Len(s)}

\* ------------------------------------------------------------- both programs
\* task.get("percentComplete", 0)
percent(task) ==
    IF task.percentComplete.kind = "none" THEN 0 ELSE task.percentComplete.val

\* variant: the comparison lets a non-number through
PercentNeverRaises(task) == FALSE

\* `percent < 100` raises TypeError when percent is not a number
PercentRaises(task) == task.percentComplete.kind = "str"

ZeroStats == [completed |-> 0, in_progress |-> 0, not_started |-> 0, late |-> 0]

\* user_stats[user_id][status] += 1; if is_late: user_stats[user_id]["late"] += 1
AddUser(us, u, st, is_late) ==
    LET cur == IF u \in DOMAIN us THEN us[u] ELSE ZeroStats
        one == [cur EXCEPT ![st] = @ + 1]
        new == IF is_late THEN [one EXCEPT !.late = @ + 1] ELSE one
    IN  [x \in (DOMAIN us) \cup {u} |-> IF x = u THEN new ELSE us[x]]

RECURSIVE AddUsers(_, _, _, _)
\* for user_id in user_ids: ...
AddUsers(us, ids, st, is_late) ==
    IF ids = {} THEN us
    ELSE LET u == CHOOSE x \in ids : TRUE
         IN  AddUsers(AddUser(us, u, st, is_late), ids \ {u}, st, is_late)

\* variant: `_assignments` is not read
GatherIdsKeysOnly(task) ==
    IF task.assignments.kind = "map" THEN Range(task.assignments.keys) ELSE {}

\* the keys of `assignments` and the truthy userId values of `_assignments`
GatherIds(task) ==
    (IF task.assignments.kind = "map" THEN Range(task.assignments.keys) ELSE {})
    \cup
    (IF task._assignments.kind = "list"
        THEN {task._assignments.items[k] : k \in
                 {j \in 1..Len(task._assignments.items) :
                     task._assignments.items[j] # ""}}
        ELSE {})

\* ------------------------------------------------------------- report script
\* datetime.fromisoformat(due.replace("Z", "+00:00")) < datetime.now(timezone.utc);
\* a string that does not parse raises inside the try and is_late stays False
ReportIsLate(task, t) ==
    /\ percent(task) < 100
    /\ task.dueDateTime.kind = "utc"
    /\ task.dueDateTime.val < t

ReportUserIds(task) == GatherIds(task)

\* variant: the `elif percent == 0` branch is missing
ReportStatusNoZero(p) == IF p = 100 THEN "completed" ELSE "in_progress"

ReportStatus(p) ==
    IF p = 100 THEN "completed"
    ELSE IF p = 0 THEN "not_started"
    ELSE "in_progress"

get_username(user_id) ==
    IF user_id \in DOMAIN USER_LOOKUP THEN USER_LOOKUP[user_id] ELSE user_id

\* the assignees list of an auxiliary-list entry
Assignees(task) ==
    IF task.assignments.kind = "map" /\ task.assignments.keys # << >>
        THEN [k \in 1..Len(task.assignments.keys) |->
                 get_username(task.assignments.keys[k])]
        ELSE <<"Unassigned">>

\* task.get("title", "<no title>")
TitleOf(task) == IF task.title.kind = "none" THEN "<no title>" ELSE task.title.val

\* variant: the `percent < 100` test is missing
LacksDescriptionAnyPercent(task) == task.hasDescription # "true"

\* not task.get("hasDescription", False) and percent < 100
LacksDescription(task) == task.hasDescription # "true" /\ percent(task) < 100

\* percent < 100 and a truthy createdDateTime
IsOldestCandidate(task) ==
    percent(task) < 100 /\ task.createdDateTime.kind # "none"

\* date_parser.parse raises on a string that is no date
ParseRaises(created) == created.kind = "bad"

RECURSIVE InsertByCreated(_, _)
\* x goes after every element whose key is <= its own (list.sort is stable)
InsertByCreated(sorted, x) ==
    IF sorted = << >> THEN <<x>>
    ELSE IF sorted[Len(sorted)].created.val <= x.created.val
        THEN Append(sorted, x)
        ELSE Append(InsertByCreated(SubSeq(sorted, 1, Len(sorted) - 1), x),
                    sorted[Len(sorted)])

\* variant: the list is left in input order
Unsorted(lst) == lst

RECURSIVE SortByCreated(_)
\* oldest_not_completed.sort(key=lambda x: date_parser.parse(x[0]))
SortByCreated(lst) ==
    IF lst = << >> THEN << >>
    ELSE InsertByCreated(SortByCreated(SubSeq(lst, 1, Len(lst) - 1)), lst[Len(lst)])

\* oldest_not_completed[:10]
FirstTen(lst) ==
    IF Len(lst) <= OldestLimit THEN lst ELSE SubSeq(lst, 1, OldestLimit)

\* ------------------------------------------------------------- exporter
\* time.mktime reads the broken-down time that strptime returns as local
\* time: the epoch value is the wall-clock reading minus the zone's offset
mktime(wall, off) == wall - off

\* time.mktime(time.strptime(due, "%Y-%m-%dT%H:%M:%SZ")) < now; a string
\* that does not match raises inside the try and is_late stays False
ExporterIsLate(task, t, off) ==
    /\ percent(task) < 100
    /\ task.dueDateTime.kind = "utc"
    /\ mktime(task.dueDateTime.val, off) < t

\* variant: no "unassigned" sentinel
ExporterUserIdsNoSentinel(task) == GatherIds(task)

ExporterUserIds(task) ==
    IF GatherIds(task) = {} THEN {"unassigned"} ELSE GatherIds(task)

ExporterStatus(p) ==
    IF p = 100 THEN "completed"
    ELSE IF p = 0 THEN "not_started"
    ELSE "in_progress"

ZeroAcc ==
    [completed |-> 0, in_progress |-> 0, not_started |-> 0, late |-> 0,
     user_stats |-> [x \in {} |-> ZeroStats]]

\* one iteration of `for task in data.get("value", [])`
ExporterTask(acc, task, t, off) ==
    LET st == ExporterStatus(percent(task))
        is_late == ExporterIsLate(task, t, off)
        one == [acc EXCEPT ![st] = @ + 1,
                           !.user_stats = AddUsers(@, ExporterUserIds(task), st, is_late)]
    IN  IF is_late THEN [one EXCEPT !.late = @ + 1] ELSE one

RECURSIVE ExporterFold(_, _, _)
\* the whole loop over a payload none of whose tasks raises
ExporterFold(tasks, t, off) ==
    IF tasks = << >> THEN ZeroAcc
    ELSE ExporterTask(ExporterFold(SubSeq(tasks, 1, Len(tasks) - 1), t, off),
                      tasks[Len(tasks)], t, off)

\* ------------------------------------------------------------- state
VARIABLES
    prog,       \* AggSpec: which program runs, "report" or "exporter"
    data,       \* data["value"]: the fetched task records
    now,        \* the clock reading the run compares due dates with
    tz,         \* exporter: the offset of the process's time zone
    show_oldest_tasks,
    pc,         \* position of the script, or of the refresh thread
    i,          \* tasks of data already processed by the loop
    user_stats,
    total_completed, total_in_progress, total_not_started, total_late,
    no_description_tasks, oldest_not_completed,
    printed_oldest,     \* the entries the oldest-tasks report prints
    completed, in_progress, not_started, late,    \* exporter locals
    resp,       \* exporter: how the last request ended
    todo,       \* exporter: (user_id, status) children still to be set
    g_completed, g_in_progress, g_not_started, g_late, user_gauge,
    rpc,        \* /metrics handler: position in generate_latest
    scrape,     \* /metrics handler: what it has collected so far
    crossed,    \* /metrics handler: a new cycle began during this scrape
    at_start    \* the registry as it stood when the current cycle began

scriptVars ==
    <<show_oldest_tasks, total_completed, total_in_progress, total_not_started,
      total_late, no_description_tasks, oldest_not_completed, printed_oldest>>
localVars == <<completed, in_progress, not_started, late>>
gaugeVars == <<g_completed, g_in_progress, g_not_started, g_late, user_gauge>>
readerVars == <<rpc, scrape, crossed>>
vars ==
    <<prog, data, now, tz, pc, i, user_stats, scriptVars, localVars, resp,
      todo, gaugeVars, readerVars, at_start>>

NoGauge == [x \in {} |-> 0]
ZeroRegistry ==
    [completed |-> 0, in_progress |-> 0, not_started |-> 0, late |-> 0,
     users |-> NoGauge]
\* what generate_latest(registry) would return if it ran in one step
Registry ==
    [completed |-> g_completed, in_progress |-> g_in_progress,
     not_started |-> g_not_started, late |-> g_late, users |-> user_gauge]

\* ------------------------------------------------------------- inputs
Plain(p, due) ==
    TaskRec(p, due, Missing, "true", TitleV("T1"), NoAssign, NoPriv)
DueVals == {Missing, BadDate} \cup {Utc(n) : n \in Instants}
StatusTasks ==
    {Plain(p, d) : p \in {IntV(0), IntV(50), IntV(100)}, d \in DueVals}
    \cup {Plain(Missing, Missing), Plain(Missing, Utc(0))}
AssignVals == {NoAssign, MapV(<< >>), MapV(<<"u1">>), MapV(<<"u2", "u1">>)}
PrivVals == {NoPriv, ListV(<<"u1">>), ListV(<<"", "u2">>)}
AssignedTasks ==
    {TaskRec(IntV(0), Utc(0), Utc(0), "false", TitleV("T2"), a, pa) :
        a \in AssignVals, pa \in PrivVals}
    \cup
    {TaskRec(p, Missing, Missing, "true", TitleV("T2"), MapV(<<"u2", "u1">>), NoPriv) :
        p \in {IntV(50), IntV(100)}}
    \cup
    {TaskRec(p, Missing, Missing, "true", TitleV("T2"), NoAssign, ListV(<<"u1">>)) :
        p \in {IntV(50), IntV(100)}}
AuxTasks ==
    {TaskRec(p, Missing, Utc(1), hd, NoTitle, NoAssign, NoPriv) :
        p \in {IntV(50), IntV(100)}, hd \in {"absent", "false"}}
    \cup
    {TaskRec(p, Missing, cr, "true", TitleV("T1"), NoAssign, NoPriv) :
        p \in {IntV(50), IntV(100)}, cr \in {BadDate, Utc(0)}}
BadPercentTask == Plain(StrV, Missing)
ExporterPool == StatusTasks \cup AssignedTasks \cup {BadPercentTask}
ReportPool == ExporterPool \cup AuxTasks
LongPool ==
    {TaskRec(IntV(50), Missing, Utc(n), "true", TitleV("T1"), NoAssign, NoPriv) :
        n \in Instants}
SeqsUpTo(S, n) == UNION {[1..k -> S] : k \in 0..n}

\* ------------------------------------------------------------- AggSpec
ExporterIdle ==
    /\ resp = "none" /\ todo = << >>
    /\ g_completed = 0 /\ g_in_progress = 0 /\ g_not_started = 0 /\ g_late = 0
    /\ user_gauge = NoGauge
    /\ rpc = "idle" /\ scrape = ZeroRegistry /\ crossed = FALSE
    /\ at_start = ZeroRegistry

ScriptStart ==
    /\ total_completed = 0 /\ total_in_progress = 0 /\ total_not_started = 0
    /\ total_late = 0
    /\ no_description_tasks = << >> /\ oldest_not_completed = << >>
    /\ printed_oldest = << >>

LocalsStart ==
    completed = 0 /\ in_progress = 0 /\ not_started = 0 /\ late = 0

AggInit ==
    /\ pc = "loop" /\ i = 0 /\ user_stats = [x \in {} |-> ZeroStats]
    /\ ScriptStart /\ LocalsStart /\ ExporterIdle
    /\ \/ /\ prog = "report" /\ tz = 0
          /\ data \in SeqsUpTo(ReportPool, MaxTasks)
          /\ now \in Instants
          /\ show_oldest_tasks \in BOOLEAN
       \/ /\ prog = "report" /\ tz = 0
          /\ data \in [1..LongLen -> LongPool]
          /\ now = 0
          /\ show_oldest_tasks = TRUE
       \/ /\ prog = "exporter" /\ tz \in TzOffsets
          /\ data \in SeqsUpTo(ExporterPool, MaxTasks)
          /\ now \in Instants
          /\ show_oldest_tasks = TRUE

\* count_incomplete_tasks.py, one iteration of the task loop
ReportTask ==
    /\ prog = "report" /\ pc = "loop" /\ i < Len(data)
    /\ ~PercentRaises(data[i + 1])
    /\ LET task == data[i + 1]
           status == ReportStatus(percent(task))
           is_late == ReportIsLate(task, now)
       IN  /\ total_completed' = total_completed + (IF status = "completed" THEN 1 ELSE 0)
           /\ total_not_started' = total_not_started + (IF status = "not_started" THEN 1 ELSE 0)
           /\ total_in_progress' = total_in_progress + (IF status = "in_progress" THEN 1 ELSE 0)
           /\ user_stats' = AddUsers(user_stats, ReportUserIds(task), status, is_late)
           /\ total_late' = total_late + (IF is_late THEN 1 ELSE 0)
           /\ no_description_tasks' =
                 IF LacksDescription(task)
                    THEN Append(no_description_tasks,
                                [title |-> TitleOf(task), assignees |-> Assignees(task)])
                    ELSE no_description_tasks
           /\ oldest_not_completed' =
                 IF IsOldestCandidate(task)
                    THEN Append(oldest_not_completed,
                                [created |-> task.createdDateTime,
                                 title |-> TitleOf(task),
                                 assignees |-> Assignees(task)])
                    ELSE oldest_not_completed
    /\ i' = i + 1
    /\ UNCHANGED <<prog, data, now, tz, pc, show_oldest_tasks, printed_oldest,
                   localVars, resp, todo, gaugeVars, readerVars, at_start>>

\* the uncaught TypeError of `percent < 100` ends the script
ReportTaskRaises ==
    /\ prog = "report" /\ pc = "loop" /\ i < Len(data)
    /\ PercentRaises(data[i + 1])
    /\ pc' = "crashed"
    /\ UNCHANGED <<prog, data, now, tz, i, user_stats, scriptVars, localVars,
                   resp, todo, gaugeVars, readerVars, at_start>>

\* after the loop: the counts are printed, then the oldest-tasks report
\* sorts the candidates in place and prints the first ten
ReportPrint ==
    /\ prog = "report" /\ pc = "loop" /\ i = Len(data)
    /\ IF show_oldest_tasks /\ oldest_not_completed # << >>
          THEN IF \E k \in 1..Len(oldest_not_completed) :
                       ParseRaises(oldest_not_completed[k].created)
                  THEN /\ pc' = "crashed"
                       /\ UNCHANGED <<oldest_not_completed, printed_oldest>>
                  ELSE /\ pc' = "done"
                       /\ oldest_not_completed' = SortByCreated(oldest_not_completed)
                       /\ printed_oldest' = FirstTen(oldest_not_completed')
          ELSE /\ pc' = "done"
               /\ UNCHANGED <<oldest_not_completed, printed_oldest>>
    /\ UNCHANGED <<prog, data, now, tz, i, user_stats, show_oldest_tasks,
                   total_completed, total_in_progress, total_not_started,
                   total_late, no_description_tasks, localVars, resp, todo,
                   gaugeVars, readerVars, at_start>>

\* task_metrics_exporter.py, one iteration of the task loop
ExporterLoopTask ==
    /\ prog = "exporter" /\ pc = "loop" /\ i < Len(data)
    /\ ~PercentRaises(data[i + 1])
    /\ LET acc == ExporterTask(
                      [completed |-> completed, in_progress |-> in_progress,
                       not_started |-> not_started, late |-> late,
                       user_stats |-> user_stats],
                      data[i + 1], now, tz)
       IN  /\ completed' = acc.completed
           /\ in_progress' = acc.in_progress
           /\ not_started' = acc.not_started
           /\ late' = acc.late
           /\ user_stats' = acc.user_stats
    /\ i' = i + 1
    /\ UNCHANGED <<prog, data, now, tz, pc, scriptVars, resp, todo, gaugeVars,
                   readerVars, at_start>>

\* the TypeError is caught by `except Exception`
ExporterLoopRaises ==
    /\ prog = "exporter" /\ pc = "loop" /\ i < Len(data)
    /\ PercentRaises(data[i + 1])
    /\ pc' = "except"
    /\ UNCHANGED <<prog, data, now, tz, i, user_stats, scriptVars, localVars,
                   resp, todo, gaugeVars, readerVars, at_start>>

ExporterLoopEnd ==
    /\ prog = "exporter" /\ pc = "loop" /\ i = Len(data)
    /\ pc' = "aggregated"
    /\ UNCHANGED <<prog, data, now, tz, i, user_stats, scriptVars, localVars,
                   resp, todo, gaugeVars, readerVars, at_start>>

AggNext ==
    \/ ReportTask
    \/ ReportTaskRaises
    \/ ReportPrint
    \/ ExporterLoopTask
    \/ ExporterLoopRaises
    \/ ExporterLoopEnd

AggSpec == AggInit /\ [][AggNext]_vars

\* ------------------------------------------------------------- Spec: the exporter
StatusLabels == <<"completed", "in_progress", "not_started", "late">>

Perms(S) == {f \in [1..Cardinality(S) -> S] : \A a, b \in 1..Cardinality(S) : f[a] = f[b] => a = b}

RECURSIVE InsertionOrders(_)
\* the orders in which user_stats can have got its keys: `for user_id in
\* user_ids` walks a set of strings, whose order the hash seed decides
InsertionOrders(tasks) ==
    IF tasks = << >> THEN {<< >>}
    ELSE UNION {{o \o n : n \in Perms(ExporterUserIds(tasks[Len(tasks)]) \ Range(o))} :
                   o \in InsertionOrders(SubSeq(tasks, 1, Len(tasks) - 1))}

RECURSIVE Children(_)
\* for user_id, stats in user_stats.items(): for status in [...]
Children(order) ==
    IF order = << >> THEN << >>
    ELSE [k \in 1..4 |-> <<order[1], StatusLabels[k]>>] \o Children(Tail(order))

\* the first task of the payload on which the loop raises, 0 if none
FirstRaising(tasks) ==
    IF \E k \in 1..Len(tasks) : PercentRaises(tasks[k])
        THEN CHOOSE k \in 1..Len(tasks) :
                 /\ PercentRaises(tasks[k])
                 /\ \A j \in 1..(k - 1) : ~PercentRaises(tasks[j])
        ELSE 0

\* user_gauge once every child of user_stats is set
UserSeries(us) ==
    [lab \in {<<u, get_username(u), StatusLabels[k]>> : u \in DOMAIN us, k \in 1..4} |->
        us[lab[1]][lab[3]]]

\* the snapshot that the values aggregated by the current cycle make up
NewSnapshot ==
    [completed |-> completed, in_progress |-> in_progress,
     not_started |-> not_started, late |-> late, users |-> UserSeries(user_stats)]

Publishing ==
    pc \in {"set_completed", "set_in_progress", "set_not_started", "set_late",
            "clear", "labels"}

ServedPool ==
    {TaskRec(IntV(100), Missing, Missing, "true", TitleV("T1"), MapV(<<"u1">>), NoPriv),
     TaskRec(IntV(0), Utc(0), Missing, "true", TitleV("T1"), NoAssign, NoPriv),
     BadPercentTask}
Payloads == SeqsUpTo(ServedPool, MaxPayload)

\* main() has started the refresh thread, which is in its first request,
\* and Flask serves /metrics
Init ==
    /\ prog = "exporter" /\ pc = "request"
    /\ data = << >> /\ now = 0 /\ i = 0
    /\ tz = 0
    /\ show_oldest_tasks = TRUE
    /\ user_stats = [x \in {} |-> ZeroStats]
    /\ ScriptStart /\ LocalsStart /\ ExporterIdle

\* requests.get, raise_for_status or resp.json raises
RequestRaises ==
    /\ pc = "request"
    /\ resp' \in {"neterror", "httperror", "badjson"}
    /\ pc' = "except"
    /\ UNCHANGED <<prog, data, now, tz, i, user_stats, scriptVars, localVars,
                   todo, gaugeVars, readerVars, at_start>>

\* the request returns a task list
RequestReturns ==
    /\ pc = "request"
    /\ resp' = "ok"
    /\ data' \in Payloads
    /\ pc' = "aggregate"
    /\ UNCHANGED <<prog, now, tz, i, user_stats, scriptVars, localVars, todo,
                   gaugeVars, readerVars, at_start>>

SetLocals(acc) ==
    /\ completed' = acc.completed
    /\ in_progress' = acc.in_progress
    /\ not_started' = acc.not_started
    /\ late' = acc.late
    /\ user_stats' = acc.user_stats

\* the whole task loop, when no task raises
Aggregate ==
    /\ pc = "aggregate"
    /\ FirstRaising(data) = 0
    /\ now' \in Instants
    /\ SetLocals(ExporterFold(data, now', tz))
    /\ \E order \in InsertionOrders(data) : todo' = Children(order)
    /\ pc' = "set_completed"
    /\ UNCHANGED <<prog, data, tz, i, scriptVars, resp, gaugeVars, readerVars,
                   at_start>>

\* the task loop up to the task on which it raises
AggregateRaises ==
    /\ pc = "aggregate"
    /\ FirstRaising(data) # 0
    /\ now' \in Instants
    /\ SetLocals(ExporterFold(SubSeq(data, 1, FirstRaising(data) - 1), now', tz))
    /\ pc' = "except"
    /\ UNCHANGED <<prog, data, tz, i, scriptVars, resp, todo, gaugeVars,
                   readerVars, at_start>>

SetCompleted ==
    /\ pc = "set_completed"
    /\ g_completed' = completed
    /\ pc' = "set_in_progress"
    /\ UNCHANGED <<prog, data, now, tz, i, user_stats, scriptVars, localVars,
                   resp, todo, g_in_progress, g_not_started, g_late, user_gauge,
                   readerVars, at_start>>

SetInProgress ==
    /\ pc = "set_in_progress"
    /\ g_in_progress' = in_progress
    /\ pc' = "set_not_started"
    /\ UNCHANGED <<prog, data, now, tz, i, user_stats, scriptVars, localVars,
                   resp, todo, g_completed, g_not_started, g_late, user_gauge,
                   readerVars, at_start>>

SetNotStarted ==
    /\ pc = "set_not_started"
    /\ g_not_started' = not_started
    /\ pc' = "set_late"
    /\ UNCHANGED <<prog, data, now, tz, i, user_stats, scriptVars, localVars,
                   resp, todo, g_completed, g_in_progress, g_late, user_gauge,
                   readerVars, at_start>>

SetLate ==
    /\ pc = "set_late"
    /\ g_late' = late
    /\ pc' = "clear"
    /\ UNCHANGED <<prog, data, now, tz, i, user_stats, scriptVars, localVars,
                   resp, todo, g_completed, g_in_progress, g_not_started,
                   user_gauge, readerVars, at_start>>

\* user_gauge.clear()
Clear ==
    /\ pc = "clear"
    /\ user_gauge' = NoGauge
    /\ pc' = IF todo = << >> THEN "sleep" ELSE "labels"
    /\ UNCHANGED <<prog, data, now, tz, i, user_stats, scriptVars, localVars,
                   resp, todo, g_completed, g_in_progress, g_not_started, g_late,
                   readerVars, at_start>>

\* user_gauge.labels(user_id=..., username=..., status=...).set(stats[status])
SetChild ==
    /\ pc = "labels"
    /\ LET user_id == todo[1][1]
           status == todo[1][2]
           lab == <<user_id, get_username(user_id), status>>
       IN  user_gauge' =
               [l \in (DOMAIN user_gauge) \cup {lab} |->
                   IF l = lab THEN user_stats[user_id][status] ELSE user_gauge[l]]
    /\ todo' = Tail(todo)
    /\ pc' = IF Tail(todo) = << >> THEN "sleep" ELSE "labels"
    /\ UNCHANGED <<prog, data, now, tz, i, user_stats, scriptVars, localVars,
                   resp, g_completed, g_in_progress, g_not_started, g_late,
                   readerVars, at_start>>

\* variant: the handler lets the thread end
ExceptExits ==
    /\ pc = "except"
    /\ pc' = "exited"
    /\ UNCHANGED <<prog, data, now, tz, i, user_stats, scriptVars, localVars,
                   resp, todo, gaugeVars, readerVars, at_start>>

\* except Exception as e: print(...)
Except ==
    /\ pc = "except"
    /\ pc' = "sleep"
    /\ UNCHANGED <<prog, data, now, tz, i, user_stats, scriptVars, localVars,
                   resp, todo, gaugeVars, readerVars, at_start>>

\* time.sleep(SCAN_INTERVAL) returns and the next cycle begins. What the
\* previous cycle left in data, now and the counters is dead: the cycle
\* assigns each of them before it reads it, so they are shown cleared.
Wake ==
    /\ pc = "sleep"
    /\ pc' = "request"
    /\ at_start' = Registry
    /\ data' = << >> /\ now' = 0
    /\ SetLocals(ZeroAcc)
    /\ crossed' = (rpc # "idle")
    /\ UNCHANGED <<prog, tz, i, scriptVars, resp, todo, gaugeVars, rpc, scrape>>

\* a GET /metrics arrives; generate_latest collects the registry's metrics
\* one after the other, in the order they were registered
ScrapeBegin ==
    /\ rpc = "idle"
    /\ rpc' = "completed"
    /\ scrape' = ZeroRegistry
    /\ crossed' = FALSE
    /\ UNCHANGED <<prog, data, now, tz, pc, i, user_stats, scriptVars, localVars,
                   resp, todo, gaugeVars, at_start>>

ScrapeCompleted ==
    /\ rpc = "completed"
    /\ scrape' = [scrape EXCEPT !.completed = g_completed]
    /\ rpc' = "in_progress"
    /\ UNCHANGED <<prog, data, now, tz, pc, i, user_stats, scriptVars, localVars,
                   resp, todo, gaugeVars, crossed, at_start>>

ScrapeInProgress ==
    /\ rpc = "in_progress"
    /\ scrape' = [scrape EXCEPT !.in_progress = g_in_progress]
    /\ rpc' = "not_started"
    /\ UNCHANGED <<prog, data, now, tz, pc, i, user_stats, scriptVars, localVars,
                   resp, todo, gaugeVars, crossed, at_start>>

ScrapeNotStarted ==
    /\ rpc = "not_started"
    /\ scrape' = [scrape EXCEPT !.not_started = g_not_started]
    /\ rpc' = "late"
    /\ UNCHANGED <<prog, data, now, tz, pc, i, user_stats, scriptVars, localVars,
                   resp, todo, gaugeVars, crossed, at_start>>

ScrapeLate ==
    /\ rpc = "late"
    /\ scrape' = [scrape EXCEPT !.late = g_late]
    /\ rpc' = "users"
    /\ UNCHANGED <<prog, data, now, tz, pc, i, user_stats, scriptVars, localVars,
                   resp, todo, gaugeVars, crossed, at_start>>

ScrapeUsers ==
    /\ rpc = "users"
    /\ scrape' = [scrape EXCEPT !.users = user_gauge]
    /\ rpc' = "done"
    /\ UNCHANGED <<prog, data, now, tz, pc, i, user_stats, scriptVars, localVars,
                   resp, todo, gaugeVars, crossed, at_start>>

\* the response is sent
ScrapeEnd ==
    /\ rpc = "done"
    /\ rpc' = "idle"
    /\ scrape' = ZeroRegistry
    /\ crossed' = FALSE
    /\ UNCHANGED <<prog, data, now, tz, pc, i, user_stats, scriptVars, localVars,
                   resp, todo, gaugeVars, at_start>>

fetch_and_update_metrics ==
    \/ RequestRaises
    \/ RequestReturns
    \/ Aggregate
    \/ AggregateRaises
    \/ SetCompleted
    \/ SetInProgress
    \/ SetNotStarted
    \/ SetLate
    \/ Clear
    \/ SetChild
    \/ Except
    \/ Wake

metrics ==
    \/ ScrapeBegin
    \/ ScrapeCompleted
    \/ ScrapeInProgress
    \/ ScrapeNotStarted
    \/ ScrapeLate
    \/ ScrapeUsers
    \/ ScrapeEnd

Next == fetch_and_update_metrics \/ metrics

Spec == Init /\ [][Next]_vars

\* The refresh thread by itself (a /metrics request writes none of its
\* variables), with every call it makes returning: the request, the
\* gauge updates and the sleep.
FairSpec ==
    Init /\ [][fetch_and_update_metrics]_vars /\ WF_vars(fetch_and_update_metrics)

\* ------------------------------------------------------------- properties of the exporter
\* the cycle in progress, or the one just ended, failed: the request
\* raised, the status was no success, the body was no JSON, or a task of
\* the payload is malformed
CycleFailed ==
    \/ resp \in {"neterror", "httperror", "badjson"}
    \/ /\ resp = "ok"
       /\ \E k \in 1..Len(data) : data[k].percentComplete.kind = "str"

\* C1: a scrape that ends within the cycle it began in returns the
\* complete snapshot of before the cycle or the complete snapshot that
\* the cycle publishes.
ScrapeNeverTorn ==
    (rpc = "done" /\ ~crossed) =>
        \/ scrape = at_start
        \/ /\ Publishing \/ pc = "sleep"
           /\ ~CycleFailed
           /\ scrape = NewSnapshot

\* C2: during and after the handling of a failed cycle the registry holds
\* what it held when the cycle began.
FailedCycleKeepsSnapshot ==
    (pc \in {"except", "sleep"} /\ CycleFailed) => Registry = at_start

FailedCycleWitness ==
    /\ pc = "sleep" /\ CycleFailed
    /\ resp = "ok" /\ completed = 0 /\ g_late = 1
    /\ Registry # ZeroRegistry

\* C3: whenever a cycle has raised, the thread gets back to a new request;
\* and a request is only ever started out of the sleep that ends the
\* cycle before it.
RefreshLoopKeepsRunning ==
    /\ (pc = "except") ~> (pc = "request")
    /\ [][(pc' = "request" /\ pc # "request") => pc = "sleep"]_vars

NextCycleWitness ==
    /\ pc = "request" /\ resp \in {"neterror", "httperror", "badjson"}
    /\ Registry # ZeroRegistry

\* ------------------------------------------------------------- properties of the task loops
Users == {"u1", "u2"}
Buckets == {"completed", "in_progress", "not_started"}

\* the tasks the loop has gone through
Processed == SubSeq(data, 1, i)

\* the assignee-ID set: the keys of `assignments` together with the
\* non-empty userId values of `_assignments`
AssigneeIdSet(task) ==
    {u \in Users :
        \/ /\ task.assignments.kind = "map"
           /\ \E k \in 1..Len(task.assignments.keys) : task.assignments.keys[k] = u
        \/ /\ task._assignments.kind = "list"
           /\ \E k \in 1..Len(task._assignments.items) : task._assignments.items[k] = u}

BucketOf(task) ==
    IF percent(task) = 100 THEN "completed"
    ELSE IF percent(task) = 0 THEN "not_started"
    ELSE "in_progress"

\* the global counters of the program that runs
Totals ==
    IF prog = "report"
        THEN [completed |-> total_completed, in_progress |-> total_in_progress,
              not_started |-> total_not_started, late |-> total_late]
        ELSE [completed |-> completed, in_progress |-> in_progress,
              not_started |-> not_started, late |-> late]

RowOf(us, u) == IF u \in DOMAIN us THEN us[u] ELSE ZeroStats

\* C4: in the report script and in the exporter alike, each global status
\* bucket counts exactly the processed tasks of that status (100 percent:
\* completed, 0 percent: not_started, anything else: in_progress), so the
\* three buckets sum to the number of tasks processed, and to the number
\* of input tasks once the loop has ended.
StatusBucketsPartitionTasks ==
    /\ \A st \in Buckets :
          Totals[st] = Cardinality({k \in 1..i : BucketOf(data[k]) = st})
    /\ Totals.completed + Totals.in_progress + Totals.not_started = i
    /\ pc \in {"done", "aggregated"} =>
          Totals.completed + Totals.in_progress + Totals.not_started = Len(data)

BucketsWitness ==
    /\ prog = "report" /\ pc = "done" /\ Len(data) = 2
    /\ total_completed = 1 /\ total_in_progress = 1

\* C5: in both programs the global late counter equals the number of
\* processed tasks that are below 100 percent and whose due instant is
\* present, parseable and earlier than the current instant.
LateIffOverdue ==
    Totals.late =
        Cardinality({k \in 1..i :
            /\ percent(data[k]) < 100
            /\ data[k].dueDateTime.kind = "utc"
            /\ data[k].dueDateTime.val < now})

\* C6: the iteration for a task with at least one assignee ID adds one to
\* exactly one global status bucket, adds one to that same bucket of each
\* of its assignees' rows and to no other bucket, adds to each of those
\* rows' late counters what it adds to the global late counter (0 or 1),
\* and leaves every other row alone.
FanOutStep ==
    (pc = "loop" /\ i' = i + 1 /\ AssigneeIdSet(data[i + 1]) # {}) =>
        LET task == data[i + 1]
            ids == AssigneeIdSet(task)
            st == BucketOf(task)
            dlate == Totals'.late - Totals.late
        IN  /\ \A b \in Buckets :
                  Totals'[b] = Totals[b] + (IF b = st THEN 1 ELSE 0)
            /\ dlate \in {0, 1}
            /\ DOMAIN user_stats' = (DOMAIN user_stats) \cup ids
            /\ \A u \in ids :
                  /\ \A b \in Buckets :
                        user_stats'[u][b] =
                            RowOf(user_stats, u)[b] + (IF b = st THEN 1 ELSE 0)
                  /\ user_stats'[u].late = RowOf(user_stats, u).late + dlate
            /\ \A u \in (DOMAIN user_stats) \ ids : user_stats'[u] = user_stats[u]

AssigneeFanOut == [][FanOutStep]_vars

FanOutWitness ==
    /\ prog = "exporter" /\ i = 2 /\ late = 1 /\ in_progress = 1
    /\ DOMAIN user_stats = {"u1", "u2"}
    /\ user_stats["u1"].late = 1 /\ user_stats["u2"].late = 1
    /\ user_stats["u1"].in_progress = 1 /\ user_stats["u2"].in_progress = 1

Min(a, b) == IF a <= b THEN a ELSE b

\* C7: what the oldest-tasks report prints is ascending by creation
\* instant, has min(10, n) entries for the n incomplete tasks that carry a
\* creation instant, takes each entry from those candidates, and leaves
\* out no candidate older than an entry it prints.
OldestListSortedAndTruncated ==
    (prog = "report" /\ pc = "done" /\ show_oldest_tasks) =>
        LET cands == {k \in 1..Len(data) :
                         percent(data[k]) < 100 /\ data[k].createdDateTime.kind = "utc"}
            at(c) == Cardinality({k \in cands : data[k].createdDateTime.val = c})
            out == printed_oldest
            printedAt(c) == Cardinality({k \in 1..Len(out) : out[k].created.val = c})
        IN  /\ Len(out) = Min(OldestLimit, Cardinality(cands))
            /\ \A k \in 1..(Len(out) - 1) : out[k].created.val <= out[k + 1].created.val
            /\ \A k \in 1..Len(out) : out[k].created.kind = "utc"
            /\ \A c \in Instants : printedAt(c) <= at(c)
            /\ \A c \in Instants :
                  (\E k \in 1..Len(out) : out[k].created.val > c) => printedAt(c) = at(c)

OldestWitness ==
    /\ prog = "report" /\ pc = "done"
    /\ Len(oldest_not_completed) > OldestLimit
    /\ Len(printed_oldest) = OldestLimit
    /\ data[1].createdDateTime.val > data[2].createdDateTime.val
    /\ printed_oldest[1].created.val < printed_oldest[OldestLimit].created.val

\* the processed tasks that are incomplete and have hasDescription false
\* or absent, in input order
WantDescription ==
    SelectSeq(Processed,
              LAMBDA t : percent(t) < 100 /\ t.hasDescription \in {"false", "absent"})

\* C8: the no-description list has one entry, in input order, for each
\* processed task that is incomplete and has hasDescription false or
\* absent, and no other entry.
NoDescriptionListExact ==
    prog = "report" =>
        /\ Len(no_description_tasks) = Len(WantDescription)
        /\ \A k \in 1..Len(no_description_tasks) :
              no_description_tasks[k].title = TitleOf(WantDescription[k])

NoDescriptionWitness ==
    /\ prog = "report" /\ pc = "done" /\ Len(data) = 2
    /\ percent(data[1]) = 100 /\ data[1].hasDescription = "false"
    /\ percent(data[2]) = 50 /\ data[2].hasDescription = "absent"
    /\ Len(no_description_tasks) = 1

\* C9 as stated: in the report script every processed task without
\* assignee IDs is counted in the row of the "unassigned" sentinel.
UnassignedRowInReport ==
    prog = "report" =>
        \A st \in Buckets :
            RowOf(user_stats, "unassigned")[st] =
                Cardinality({k \in 1..i :
                    AssigneeIdSet(data[k]) = {} /\ BucketOf(data[k]) = st})

\* C9 amended: it is the exporter that counts a task without assignee IDs
\* in the "unassigned" row (its status bucket and, when the exporter flags
\* it late, the late counter), so that every task it processes is in some
\* row; the report script gives such a task no row at all.
SentinelOnlyInExporter ==
    /\ prog = "exporter" =>
          /\ \A st \in Buckets :
                RowOf(user_stats, "unassigned")[st] =
                    Cardinality({k \in 1..i :
                        AssigneeIdSet(data[k]) = {} /\ BucketOf(data[k]) = st})
          /\ RowOf(user_stats, "unassigned").late =
                    Cardinality({k \in 1..i :
                        AssigneeIdSet(data[k]) = {} /\ ExporterIsLate(data[k], now, tz)})
          /\ i >= 1 => DOMAIN user_stats # {}
    /\ prog = "report" =>
          DOMAIN user_stats = UNION {AssigneeIdSet(data[k]) : k \in 1..i}

SentinelWitness ==
    /\ prog = "exporter" /\ pc = "aggregated" /\ Len(data) = 2
    /\ "unassigned" \in DOMAIN user_stats
    /\ user_stats["unassigned"].late = 1
    /\ user_stats["unassigned"].completed = 1

\* the processed tasks that are incomplete and carry a creation instant
WantOldest ==
    SelectSeq(Processed,
              LAMBDA t : percent(t) < 100 /\ t.createdDateTime.kind # "none")

NamesMatch(assignees, task) ==
    IF AssigneeIdSet(task) = {}
        THEN assignees = <<"Unassigned">>
        ELSE /\ Range(assignees) = {get_username(u) : u \in AssigneeIdSet(task)}
             /\ Len(assignees) = Cardinality(AssigneeIdSet(task))

\* C10: every entry of the no-description list and of the list of
\* oldest-task candidates names exactly the assignee-ID set of its task,
\* and ["Unassigned"] only when that set is empty.
AuxAssigneesMatchIdSet ==
    (prog = "report" /\ pc = "loop") =>
        /\ \A k \in 1..Min(Len(no_description_tasks), Len(WantDescription)) :
              NamesMatch(no_description_tasks[k].assignees, WantDescription[k])
        /\ \A k \in 1..Min(Len(oldest_not_completed), Len(WantOldest)) :
              NamesMatch(oldest_not_completed[k].assignees, WantOldest[k])

====
